---- MODULE Spec2Model ----
(***************************************************************************)
(* Model of the 1337x scraper of rumlibrs (src/src/scraper/leetx.rs): the  *)
(* two-stage stream pipeline built by get_games_n_pages / get_all_games,   *)
(* the fetches it starts and the outcomes it emits.                        *)
(*                                                                         *)
(* The pipeline is                                                         *)
(*   stream::iter(first_page..).map(parse_page).map(map_ok_or_else)        *)
(*     .take(num_pages).buffered(page_buf_factor).flat_map(stream::iter)   *)
(*     .map_ok(parse_game).try_buffered(game_buf_factor)                   *)
(* and it only makes progress when its consumer polls it.  One Poll action *)
(* is one poll_next of the outermost stream; the server's answers arrive   *)
(* between polls.                                                          *)
(***************************************************************************)
EXTENDS Integers, Sequences, FiniteSets, TLC

\* Bounds of the model.
MaxPages == 3
MaxLinks == 2
MaxBuf == 2
MaxFirst == 2
MaxStr == 5
MaxFragments == 3
MaxGames == 3
MaxCalls == 4
MaxHeadings == 2

VARIABLES
    page_buf_factor,  \* LeetxScraper.page_buf_factor
    game_buf_factor,  \* LeetxScraper.game_buf_factor
    mode,             \* "n_pages": get_games_n_pages; "all": get_all_games
    first_page,       \* argument first_page
    num_pages,        \* argument num_pages (get_all_games: from get_num_pages)
    pc,               \* "start", "pagination", "crawl", "ended", "failed"
    pagination,       \* the fetch of get_num_pages: "none", "inflight", "silent",
                      \* and what get_num_pages returned: "ok", "err"
    returned,         \* the Err get_all_games returned, or NoErr
    iter,             \* next number of the range first_page..
    remaining,        \* Take.remaining
    pages_done,       \* Fuse.done of the stream under buffered
    page_queue,       \* FuturesOrdered of buffered, in push order
    page_ready,       \* its ready-to-run queue (pages, in wake order)
    flat_next,        \* the iterator flat_map is draining
    urls_done,        \* Fuse.done of the stream under try_buffered
    game_queue,       \* FuturesOrdered of try_buffered, in push order
    game_ready,       \* its ready-to-run queue (items, in wake order)
    emitted,          \* the outcomes the stream has yielded, in order
    page_fetches,     \* listing-page fetches started, in order (history)
    game_fetches,     \* detail-page fetches started, in order (history)
    page_log,         \* what each listing page answered (history)
    game_log,         \* what each detail page answered (history)
    called,           \* the function called on its own: "parse_tags", "version",
                      \* "extract", "get_num_pages", "parse_game", "library"; "none"
                      \* while the pipeline runs
    arg,              \* its argument
    locals,           \* its local variables while it runs
    ret,              \* what it returned
    step              \* "idle", "call", "run", "done"

vars == <<page_buf_factor, game_buf_factor, mode, first_page, num_pages, pc,
          pagination, returned, iter, remaining, pages_done, page_queue,
          page_ready, flat_next, urls_done, game_queue, game_ready, emitted,
          page_fetches, game_fetches, page_log, game_log,
          called, arg, locals, ret, step>>

\* The variables of a function called on its own.
Units == <<called, arg, locals, ret, step>>

\* No function is called on its own.
NoCall ==
    /\ called = "none"
    /\ arg = <<>>
    /\ locals = <<>>
    /\ ret = <<>>
    /\ step = "idle"

----------------------------------------------------------------------------
\* ScrapeError and the values that flow through the pipeline.

NoErr == [kind |-> "none", message |-> "", page |-> 0]
HttpError == [kind |-> "HttpError", message |-> "", page |-> 0]
UrlError == [kind |-> "UrlError", message |-> "", page |-> 0]

ScrapeError_game(message) == [kind |-> "Game", message |-> message, page |-> 0]

ScrapeError_page(message, page) == [kind |-> "Page", message |-> message, page |-> page]

\* A detail document, by the regions parse_game looks for: each is there
\* or not.
FullDoc == [name |-> TRUE, subtitle |-> TRUE, hash |-> TRUE, size |-> TRUE, info |-> TRUE]

\* What a server answers to a detail fetch: a document (http) or a
\* transport failure.
Answer(doc) == [http |-> TRUE, doc |-> doc]

NoAnswer == [http |-> FALSE, doc |-> [name |-> FALSE, subtitle |-> FALSE,
             hash |-> FALSE, size |-> FALSE, info |-> FALSE]]

\* The detail documents the modelled server serves.  A transport failure of
\* a detail fetch takes the path of a document with a region missing (an Err
\* once the fetch is answered); the pipeline is run with the latter.
ServedDocs == {FullDoc, [FullDoc EXCEPT !.hash = FALSE]}

\* A relative link of a listing page, by what parse_game makes of it:
\* "ok" resolves and carries an id, "nojoin" cannot be joined to the base
\* url, "noid" resolves to an url without a numeric id.
LinkKinds == {"ok", "nojoin", "noid"}

\* The links the modelled listing pages carry.
ServedLinks == {"ok", "noid"}

RECURSIVE SeqsUpTo(_, _)
SeqsUpTo(S, n) ==
    IF n = 0 THEN {<<>>}
    ELSE LET shorter == SeqsUpTo(S, n - 1)
         IN shorter \cup {Append(s, x) : s \in {t \in shorter : Len(t) = n - 1}, x \in S}

\* What a listing page can answer: a transport failure, or its links.
PageFailed == [ok |-> FALSE, links |-> <<>>]

PageAnswers == {PageFailed} \cup {[ok |-> TRUE, links |-> l] : l \in SeqsUpTo(ServedLinks, MaxLinks)}

NotAnswered == [ok |-> FALSE, links |-> <<"pending">>]

----------------------------------------------------------------------------
\* Strings are sequences of symbols: a symbol is one character ("[", " ",
\* ":", "/", a digit, ...) or a word that holds none of those characters.

Range(f) == {f[i] : i \in DOMAIN f}

DigitSeq == <<"0", "1", "2", "3", "4", "5", "6", "7", "8", "9">>

Digits == Range(DigitSeq)

DigitValue(d) == (CHOOSE n \in 1..10 : DigitSeq[n] = d) - 1

\* str::parse::<usize>().ok(): the empty string and a string with a
\* character that is no digit give None.
RECURSIVE parse_usize(_)
parse_usize(s) ==
    IF s = <<>> \/ \E i \in 1..Len(s) : s[i] \notin Digits
    THEN [some |-> FALSE, val |-> 0]
    ELSE IF Len(s) = 1 THEN [some |-> TRUE, val |-> DigitValue(s[1])]
    ELSE [some |-> TRUE,
          val |-> 10 * parse_usize(SubSeq(s, 1, Len(s) - 1)).val + DigitValue(s[Len(s)])]

\* str::contains(pat)
Contains(s, pat) ==
    \E i \in 1..(Len(s) - Len(pat) + 1) : SubSeq(s, i, i + Len(pat) - 1) = pat

\* s.strip_prefix(c).unwrap_or(s) and s.strip_suffix(c).unwrap_or(s)
strip_prefix(s, c) == IF s # <<>> /\ s[1] = c THEN Tail(s) ELSE s

strip_suffix(s, c) == IF s # <<>> /\ s[Len(s)] = c THEN SubSeq(s, 1, Len(s) - 1) ELSE s

\* s.split(c), collected: the segments between the occurrences of c.
RECURSIVE Split(_, _)
Split(s, c) ==
    IF \E i \in 1..Len(s) : s[i] = c
    THEN LET i == CHOOSE k \in 1..Len(s) : s[k] = c /\ \A h \in 1..(k - 1) : s[h] # c
         IN <<SubSeq(s, 1, i - 1)>> \o Split(SubSeq(s, i + 1, Len(s)), c)
    ELSE <<s>>

None == [some |-> FALSE, val |-> <<>>]

Some(v) == [some |-> TRUE, val |-> v]

\* RE_TAGS.captures_iter: the captures of \[(.*?)\] from position `from` on,
\* leftmost match first and each match ending at the first "]" after its
\* "["; `.` matches no line feed.
RECURSIVE RE_TAGS(_, _)
RE_TAGS(s, from) ==
    LET Closes(i) == {j \in (i + 1)..Len(s) : s[j] = "]"}
        Close(i) == CHOOSE j \in Closes(i) : \A k \in Closes(i) : j <= k
        Opens == {i \in from..Len(s) :
                     /\ s[i] = "["
                     /\ Closes(i) # {}
                     /\ \A k \in (i + 1)..(Close(i) - 1) : s[k] # "\n"}
    IN IF Opens = {} THEN <<>>
       ELSE LET i == CHOOSE o \in Opens : \A k \in Opens : o <= k
            IN <<SubSeq(s, i + 1, Close(i) - 1)>> \o RE_TAGS(s, Close(i) + 1)

\* parse_tags with neither the filter nor the renames.
parse_tags_Verbatim(subtitle) == Range(RE_TAGS(subtitle, 1))

\* parse_tags: the captures, without "johncena141", the two literals renamed.
parse_tags(subtitle) ==
    LET kept == {t \in Range(RE_TAGS(subtitle, 1)) : t # <<"johncena141">>}
        renamed(t) == CASE t = <<"GNU/Linux", " ", "Wine">> -> <<"Wine">>
                        [] t = <<"GNU/Linux", " ", "Native">> -> <<"Native">>
                        [] OTHER -> t
    IN {renamed(t) : t \in kept}

ScrapeError_Other(message) == [kind |-> "Other", message |-> message, page |-> 0]

\* parse_items: the text between the first and the second colon, one leading
\* space and one trailing line feed stripped, split at the commas, one
\* leading space stripped from each item.
parse_items(line) ==
    LET parts == Split(line, ":")
    IN IF Len(parts) < 2
       THEN [ok |-> FALSE, items |-> {}, err |-> ScrapeError_Other("items list")]
       ELSE LET list == strip_suffix(strip_prefix(parts[2], " "), "\n")
            IN [ok |-> TRUE,
                items |-> {strip_prefix(i, " ") : i \in Range(Split(list, ","))},
                err |-> NoErr]

\* The version of parse_game: the text before the first space of the
\* subtitle, unless it holds both a "[" and a "]".
version(subtitle) ==
    LET v == Split(subtitle, " ")[1]
    IN IF Contains(v, <<"[">>) /\ Contains(v, <<"]">>) THEN None ELSE Some(v)

\* RE_PAGE with a lazy first .* : the leftmost "/" followed by digits (or
\* none) and a "/".
RE_PAGE_Leftmost(href) ==
    LET End(i) == CHOOSE j \in (i + 1)..(Len(href) + 1) :
                      /\ \A k \in (i + 1)..(j - 1) : href[k] \in Digits
                      /\ j <= Len(href) => href[j] \notin Digits
        Starts == {i \in 1..Len(href) :
                      href[i] = "/" /\ End(i) <= Len(href) /\ href[End(i)] = "/"}
    IN IF Starts = {} THEN None
       ELSE LET i == CHOOSE m \in Starts : \A k \in Starts : m <= k
            IN Some(SubSeq(href, i + 1, End(i) - 1))

\* RE_PAGE.captures_iter(href).next(), capture 1 of .*/(\d*)/.* : the first
\* .* is greedy, so the match takes the rightmost "/" that is followed by
\* digits (or none) and a "/".
RE_PAGE(href) ==
    LET End(i) == CHOOSE j \in (i + 1)..(Len(href) + 1) :
                      /\ \A k \in (i + 1)..(j - 1) : href[k] \in Digits
                      /\ j <= Len(href) => href[j] \notin Digits
        Starts == {i \in 1..Len(href) :
                      href[i] = "/" /\ End(i) <= Len(href) /\ href[End(i)] = "/"}
    IN IF Starts = {} THEN None
       ELSE LET i == CHOOSE m \in Starts : \A k \in Starts : k <= m
            IN Some(SubSeq(href, i + 1, End(i) - 1))

----------------------------------------------------------------------------
\* The fetchers, as functions of what the server answers.

\* parse_page: the fetch failing is an HttpError (the `?` on reqwest::get);
\* any fetched document gives its links, possibly none.
parse_page(page, answer) ==
    IF answer.ok THEN [ok |-> TRUE, links |-> answer.links, err |-> NoErr]
    ELSE [ok |-> FALSE, links |-> <<>>, err |-> HttpError]

\* get_pages_futures with a failed page mapped to an empty iterator.
get_pages_futures_ErrDropped(page, answer) ==
    IF parse_page(page, answer).ok
    THEN [i \in 1..Len(answer.links) |->
             [ok |-> TRUE, page |-> page, idx |-> i, link |-> answer.links[i], err |-> NoErr]]
    ELSE <<>>

\* The closure of get_pages_futures: a failed page becomes the one-element
\* iterator once(Err(err)), a fetched page the iterator of its Ok(url).
get_pages_futures(page, answer) ==
    LET r == parse_page(page, answer)
    IN IF r.ok
       THEN [i \in 1..Len(r.links) |->
                [ok |-> TRUE, page |-> page, idx |-> i, link |-> r.links[i], err |-> NoErr]]
       ELSE << [ok |-> FALSE, page |-> page, idx |-> 0, link |-> "", err |-> r.err] >>

\* parse_game before its fetch with a default id for an url without one.
parse_game_url_IdOptional(link) ==
    CASE link = "nojoin" -> UrlError
      [] OTHER -> NoErr

\* parse_game before its fetch: Url::parse(base)?.join(url)? and RE_ID.
parse_game_url(link) ==
    CASE link = "nojoin" -> UrlError
      [] link = "noid" -> ScrapeError_game("1337x id from url")
      [] OTHER -> NoErr

\* parse_game_document without the check of the hash region.
parse_game_document_HashOptional(answer) ==
    CASE ~answer.http -> HttpError
      [] ~answer.doc.name -> ScrapeError_game("name")
      [] ~answer.doc.subtitle -> ScrapeError_game("subtitle")
      [] ~answer.doc.size -> ScrapeError_game("size")
      [] ~answer.doc.info -> ScrapeError_game("info")
      [] OTHER -> NoErr

\* parse_game_document with the size looked for before the hash.
parse_game_document_SizeBeforeHash(answer) ==
    CASE ~answer.http -> HttpError
      [] ~answer.doc.name -> ScrapeError_game("name")
      [] ~answer.doc.subtitle -> ScrapeError_game("subtitle")
      [] ~answer.doc.size -> ScrapeError_game("size")
      [] ~answer.doc.hash -> ScrapeError_game("hash")
      [] ~answer.doc.info -> ScrapeError_game("info")
      [] OTHER -> NoErr

\* parse_game after its fetch: the regions in the order the code looks for
\* them; NoErr stands for Ok(Game).
parse_game_document(answer) ==
    CASE ~answer.http -> HttpError
      [] ~answer.doc.name -> ScrapeError_game("name")
      [] ~answer.doc.subtitle -> ScrapeError_game("subtitle")
      [] ~answer.doc.hash -> ScrapeError_game("hash")
      [] ~answer.doc.size -> ScrapeError_game("size")
      [] ~answer.doc.info -> ScrapeError_game("info")
      [] OTHER -> NoErr

\* The pagination control of listing page 1: whether the last-page link is
\* there, and its href.
PaginationDocs ==
    {[link |-> FALSE, href |-> <<>>]} \cup
    {[link |-> TRUE, href |-> h] :
        h \in {<<"/", "/">>} \cup {<<"/", DigitSeq[n + 1], "/">> : n \in 0..MaxPages}}

PaginationAnswers == {[http |-> FALSE, doc |-> [link |-> FALSE, href |-> <<>>]]} \cup
                     {[http |-> TRUE, doc |-> d] : d \in PaginationDocs}

\* get_num_pages: Ok(page) or the error it returns.
get_num_pages(answer) ==
    CASE ~answer.http -> [ok |-> FALSE, page |-> 0, err |-> HttpError]
      [] ~answer.doc.link -> [ok |-> FALSE, page |-> 0, err |-> ScrapeError_page("pagination", 1)]
      [] ~RE_PAGE(answer.doc.href).some \/ ~parse_usize(RE_PAGE(answer.doc.href).val).some ->
            [ok |-> FALSE, page |-> 0,
             err |-> ScrapeError_page("page number from pagination link", 1)]
      [] OTHER -> [ok |-> TRUE, page |-> parse_usize(RE_PAGE(answer.doc.href).val).val,
                   err |-> NoErr]

----------------------------------------------------------------------------
\* The stream combinators.  Each operator is one poll_next; it takes the
\* pipeline's state (a record of the variables) and gives the state after
\* the poll and what the poll returned.  Only({e : x \in {v}}) is e with x
\* bound to the value of v, computed once.

Only(S) == CHOOSE r \in S : TRUE

Pending == [tag |-> "Pending"]
ReadyNone == [tag |-> "None"]
ReadySome(v) == [tag |-> "Some", val |-> v]

\* Position of the task of page p in a FuturesOrdered.
PageIndex(q, p) == CHOOSE i \in 1..Len(q) : q[i].page = p

GameIndex(q, it) == CHOOSE i \in 1..Len(q) : q[i].page = it[1] /\ q[i].idx = it[2]

\* buffered's fill loop over Fuse<Take<Map<Iter<RangeFrom>>>>: while the
\* queue holds fewer than max futures, take the next page future; Take ends
\* the stream when remaining is 0 and Fuse remembers it.
RECURSIVE BufferedFill(_)

\* buffered without its limit: every page future is taken at once.
BufferedFill_Unbounded(state) == Only({
    IF ~s.pages_done
    THEN IF s.remaining = 0
         THEN [s EXCEPT !.pages_done = TRUE]
         ELSE BufferedFill([s EXCEPT
                  !.page_queue = Append(@, [page |-> s.iter, st |-> "created",
                                            answer |-> NotAnswered]),
                  !.page_ready = Append(@, s.iter),
                  !.iter = @ + 1,
                  !.remaining = @ - 1])
    ELSE s
    : s \in {state}})

\* take applied one page late: a future is made for page first + num too.
BufferedFill_TakeOneMore(state) == Only({
    IF Len(s.page_queue) < s.page_buf_factor /\ ~s.pages_done
    THEN BufferedFill([s EXCEPT
             !.page_queue = Append(@, [page |-> s.iter, st |-> "created",
                                       answer |-> NotAnswered]),
             !.page_ready = Append(@, s.iter),
             !.iter = @ + 1,
             !.remaining = IF @ = 0 THEN 0 ELSE @ - 1,
             !.pages_done = (s.remaining = 0)])
    ELSE s
    : s \in {state}})

BufferedFill(state) == Only({
    IF Len(s.page_queue) < s.page_buf_factor /\ ~s.pages_done
    THEN IF s.remaining = 0
         THEN [s EXCEPT !.pages_done = TRUE]
         ELSE BufferedFill([s EXCEPT
                  !.page_queue = Append(@, [page |-> s.iter, st |-> "created",
                                            answer |-> NotAnswered]),
                  !.page_ready = Append(@, s.iter),
                  !.iter = @ + 1,
                  !.remaining = @ - 1])
    ELSE s
    : s \in {state}})

\* FuturesOrdered::poll_next of the page queue: a queued output at the head
\* is returned at once; otherwise the woken futures are polled in wake order
\* until the head's output shows up.  A future polled for the first time
\* starts its fetch.
RECURSIVE PageQueuePoll(_)
PageQueuePoll(state) == Only({
    IF s.page_queue # <<>> /\ Head(s.page_queue).st = "output"
    THEN [s |-> [s EXCEPT !.page_queue = Tail(@)],
          ret |-> ReadySome(get_pages_futures(Head(s.page_queue).page,
                                              Head(s.page_queue).answer))]
    ELSE IF s.page_ready = <<>>
    THEN [s |-> s, ret |-> IF s.page_queue = <<>> THEN ReadyNone ELSE Pending]
    ELSE LET p == Head(s.page_ready)
             i == PageIndex(s.page_queue, p)
         IN IF s.page_queue[i].st = "created"
            THEN PageQueuePoll([s EXCEPT !.page_queue[i].st = "inflight",
                                         !.page_ready = Tail(@),
                                         !.page_fetches = Append(@, p)])
            ELSE PageQueuePoll([s EXCEPT !.page_queue[i].st = "output",
                                         !.page_ready = Tail(@)])
    : s \in {state}})

\* Buffered::poll_next.
BufferedPoll(state) == Only({
    IF q.ret.tag = "None"
    THEN [s |-> q.s, ret |-> IF q.s.pages_done THEN ReadyNone ELSE Pending]
    ELSE q
    : q \in {PageQueuePoll(BufferedFill(state))}})

\* Flatten::poll_next of flat_map(|page| stream::iter(page)): drain the
\* current iterator, then poll buffered for the next one.
RECURSIVE FlatMapPoll(_)
FlatMapPoll(state) == Only({
    IF s.flat_next # <<>>
    THEN [s |-> [s EXCEPT !.flat_next = Tail(@)], ret |-> ReadySome(Head(s.flat_next))]
    ELSE Only({IF b.ret.tag = "Some"
               THEN FlatMapPoll([b.s EXCEPT !.flat_next = b.ret.val])
               ELSE b
               : b \in {BufferedPoll(s)}})
    : s \in {state}})

\* What a detail-page future resolves to: the error found before the fetch,
\* or what parse_game makes of the fetched document.
parse_game(t) ==
    IF parse_game_url(t.link) # NoErr THEN parse_game_url(t.link)
    ELSE parse_game_document(t.answer)

\* An outcome of the stream: Ok(Game) when err = NoErr, else Err(err).
\* src, page, idx and answer record where the outcome comes from.
GameOutcome(t) ==
    [src |-> "game", page |-> t.page, idx |-> t.idx, err |-> parse_game(t),
     answer |-> t.answer]

PageOutcome(item) ==
    [src |-> "page", page |-> item.page, idx |-> 0, err |-> item.err, answer |-> NoAnswer]

\* map_ok(parse_game): the future made for an Ok(url), not yet polled.
GameFuture(item) ==
    [page |-> item.page, idx |-> item.idx, link |-> item.link, st |-> "created",
     answer |-> NoAnswer]

\* try_buffered's fill loop over Fuse<IntoStream<MapOk<FlatMap>>>: while the
\* queue holds fewer than max futures, poll the url stream; map_ok turns an
\* Ok(url) into a parse_game future, and an Err is returned at once by `?`.
RECURSIVE TryBufferedFill(_)

\* try_buffered without its limit.
TryBufferedFill_Unbounded(state) == Only({
    IF ~s.urls_done
    THEN Only({
           CASE u.ret.tag = "Pending" -> [s |-> u.s, ret |-> Pending]
             [] u.ret.tag = "None" -> [s |-> [u.s EXCEPT !.urls_done = TRUE], ret |-> Pending]
             [] OTHER ->
                  IF u.ret.val.ok
                  THEN TryBufferedFill([u.s EXCEPT
                           !.game_queue = Append(@, GameFuture(u.ret.val)),
                           !.game_ready = Append(@, <<u.ret.val.page, u.ret.val.idx>>)])
                  ELSE [s |-> u.s, ret |-> ReadySome(PageOutcome(u.ret.val))]
           : u \in {FlatMapPoll(s)}})
    ELSE [s |-> s, ret |-> Pending]
    : s \in {state}})

\* An Err of the url stream ends it (as a try_ combinator that stops at the
\* first error would).
TryBufferedFill_ErrIsFatal(state) == Only({
    IF Len(s.game_queue) < s.game_buf_factor /\ ~s.urls_done
    THEN Only({
           CASE u.ret.tag = "Pending" -> [s |-> u.s, ret |-> Pending]
             [] u.ret.tag = "None" -> [s |-> [u.s EXCEPT !.urls_done = TRUE], ret |-> Pending]
             [] OTHER ->
                  IF u.ret.val.ok
                  THEN TryBufferedFill([u.s EXCEPT
                           !.game_queue = Append(@, GameFuture(u.ret.val)),
                           !.game_ready = Append(@, <<u.ret.val.page, u.ret.val.idx>>)])
                  ELSE [s |-> [u.s EXCEPT !.urls_done = TRUE],
                        ret |-> ReadySome(PageOutcome(u.ret.val))]
           : u \in {FlatMapPoll(s)}})
    ELSE [s |-> s, ret |-> Pending]
    : s \in {state}})

TryBufferedFill(state) == Only({
    IF Len(s.game_queue) < s.game_buf_factor /\ ~s.urls_done
    THEN Only({
           CASE u.ret.tag = "Pending" -> [s |-> u.s, ret |-> Pending]
             [] u.ret.tag = "None" -> [s |-> [u.s EXCEPT !.urls_done = TRUE], ret |-> Pending]
             [] OTHER ->
                  IF u.ret.val.ok
                  THEN TryBufferedFill([u.s EXCEPT
                           !.game_queue = Append(@, GameFuture(u.ret.val)),
                           !.game_ready = Append(@, <<u.ret.val.page, u.ret.val.idx>>)])
                  ELSE [s |-> u.s, ret |-> ReadySome(PageOutcome(u.ret.val))]
           : u \in {FlatMapPoll(s)}})
    ELSE [s |-> s, ret |-> Pending]
    : s \in {state}})

\* FuturesOrdered::poll_next of the game queue.  A parse_game future polled
\* for the first time resolves the url and extracts the id, which can fail
\* at once, and only then starts its fetch.
RECURSIVE GameQueuePoll(_)

\* The game queue as a FuturesUnordered (buffer_unordered): an output is
\* returned as soon as its future completes.
GameQueuePoll_Unordered(state) == Only({
    IF s.game_ready = <<>>
    THEN [s |-> s, ret |-> IF s.game_queue = <<>> THEN ReadyNone ELSE Pending]
    ELSE LET it == Head(s.game_ready)
             i == GameIndex(s.game_queue, it)
         IN IF s.game_queue[i].st = "created" /\ parse_game_url(s.game_queue[i].link) = NoErr
            THEN GameQueuePoll([s EXCEPT !.game_queue[i].st = "inflight",
                                         !.game_ready = Tail(@),
                                         !.game_fetches = Append(@, it)])
            ELSE [s |-> [s EXCEPT !.game_queue = SubSeq(@, 1, i - 1) \o
                                                 SubSeq(@, i + 1, Len(@)),
                                  !.game_ready = Tail(@)],
                  ret |-> ReadySome(GameOutcome(s.game_queue[i]))]
    : s \in {state}})

GameQueuePoll(state) == Only({
    IF s.game_queue # <<>> /\ Head(s.game_queue).st = "output"
    THEN [s |-> [s EXCEPT !.game_queue = Tail(@)],
          ret |-> ReadySome(GameOutcome(Head(s.game_queue)))]
    ELSE IF s.game_ready = <<>>
    THEN [s |-> s, ret |-> IF s.game_queue = <<>> THEN ReadyNone ELSE Pending]
    ELSE LET it == Head(s.game_ready)
             i == GameIndex(s.game_queue, it)
         IN IF s.game_queue[i].st = "created" /\ parse_game_url(s.game_queue[i].link) = NoErr
            THEN GameQueuePoll([s EXCEPT !.game_queue[i].st = "inflight",
                                         !.game_ready = Tail(@),
                                         !.game_fetches = Append(@, it)])
            ELSE GameQueuePoll([s EXCEPT !.game_queue[i].st = "output",
                                         !.game_ready = Tail(@)])
    : s \in {state}})

\* TryBuffered::poll_next, the poll_next of the stream get_games_n_pages
\* returns.
TryBufferedPoll(state) == Only({
    IF f.ret.tag = "Some" THEN f
    ELSE Only({IF q.ret.tag = "None"
               THEN [s |-> q.s, ret |-> IF q.s.urls_done THEN ReadyNone ELSE Pending]
               ELSE q
               : q \in {GameQueuePoll(f.s)}})
    : f \in {TryBufferedFill(state)}})

----------------------------------------------------------------------------
\* The state machine.

Pipe == [page_buf_factor |-> page_buf_factor, game_buf_factor |-> game_buf_factor,
         iter |-> iter, remaining |-> remaining, pages_done |-> pages_done,
         page_queue |-> page_queue, page_ready |-> page_ready,
         flat_next |-> flat_next, urls_done |-> urls_done,
         game_queue |-> game_queue, game_ready |-> game_ready,
         page_fetches |-> page_fetches, game_fetches |-> game_fetches]

\* LeetxScraper::new with the given buffer factors, and the call made on it.
\* get_games_n_pages only builds the stream; get_all_games first awaits
\* get_num_pages.
InitWith(factors) ==
    /\ page_buf_factor \in factors
    /\ game_buf_factor \in factors
    /\ mode \in {"n_pages", "all"}
    /\ IF mode = "n_pages"
       THEN /\ first_page \in 1..MaxFirst
            /\ num_pages \in 0..MaxPages
            /\ pc = "crawl"
       ELSE /\ first_page = 1
            /\ num_pages = 0
            /\ pc = "start"
    /\ pagination = "none"
    /\ returned = NoErr
    /\ iter = first_page
    /\ remaining = num_pages
    /\ pages_done = FALSE
    /\ page_queue = <<>>
    /\ page_ready = <<>>
    /\ flat_next = <<>>
    /\ urls_done = FALSE
    /\ game_queue = <<>>
    /\ game_ready = <<>>
    /\ emitted = <<>>
    /\ page_fetches = <<>>
    /\ game_fetches = <<>>
    /\ page_log = [p \in {} |-> PageFailed]
    /\ game_log = [it \in {} |-> NoAnswer]
    /\ NoCall

Init == InitWith(1..MaxBuf)

Params == <<page_buf_factor, game_buf_factor, mode, first_page>>
Stage1 == <<iter, remaining, pages_done, page_queue, page_ready, page_fetches>>
Stage2 == <<flat_next, urls_done, game_queue, game_ready, game_fetches>>

\* get_all_games polls get_num_pages for the first time: its fetch starts.
GetNumPagesStart ==
    /\ pc = "start"
    /\ pc' = "pagination"
    /\ pagination' = "inflight"
    /\ UNCHANGED <<Units, Params, num_pages, returned, Stage1, Stage2, emitted, page_log, game_log>>

\* get_all_games with the error of get_num_pages replaced by one page
\* (unwrap_or(1)) instead of returned.
GetNumPagesAnswer_Unwrap(answer) ==
    /\ pc = "pagination"
    /\ pagination = "inflight"
    /\ pc' = "crawl"
    /\ pagination' = IF get_num_pages(answer).ok THEN "ok" ELSE "err"
    /\ num_pages' = IF get_num_pages(answer).ok THEN get_num_pages(answer).page ELSE 1
    /\ remaining' = num_pages'
    /\ UNCHANGED <<Units, page_buf_factor, game_buf_factor, mode, first_page, returned, iter,
                   pages_done, page_queue, page_ready, page_fetches, flat_next,
                   urls_done, game_queue, game_ready, game_fetches, emitted,
                   page_log, game_log>>

\* The pagination fetch is answered: `?` returns the error to the caller, or
\* the stream get_games_n_pages(1, num_pages) is built and handed over.
GetNumPagesAnswer(answer) ==
    /\ pc = "pagination"
    /\ pagination = "inflight"
    /\ LET r == get_num_pages(answer)
       IN IF r.ok
          THEN /\ pc' = "crawl"
               /\ pagination' = "ok"
               /\ num_pages' = r.page
               /\ remaining' = r.page
               /\ returned' = returned
          ELSE /\ pc' = "failed"
               /\ pagination' = "err"
               /\ returned' = r.err
               /\ UNCHANGED <<num_pages, remaining>>
    /\ UNCHANGED <<Units, Params, iter, pages_done, page_queue, page_ready, page_fetches,
                   Stage2, emitted, page_log, game_log>>

\* The consumer (next().await, collect) polls the stream once.
Poll ==
    /\ pc = "crawl"
    /\ \E r \in {TryBufferedPoll(Pipe)} :
          /\ iter' = r.s.iter
          /\ remaining' = r.s.remaining
          /\ pages_done' = r.s.pages_done
          /\ page_queue' = r.s.page_queue
          /\ page_ready' = r.s.page_ready
          /\ flat_next' = r.s.flat_next
          /\ urls_done' = r.s.urls_done
          /\ game_queue' = r.s.game_queue
          /\ game_ready' = r.s.game_ready
          /\ page_fetches' = r.s.page_fetches
          /\ game_fetches' = r.s.game_fetches
          /\ emitted' = IF r.ret.tag = "Some" THEN Append(emitted, r.ret.val) ELSE emitted
          /\ pc' = IF r.ret.tag = "None" THEN "ended" ELSE pc
    /\ UNCHANGED <<Units, Params, num_pages, pagination, returned, page_log, game_log>>

\* The server answers a listing-page fetch in flight; the future is woken.
PageAnswer(i, answer) ==
    /\ pc = "crawl"
    /\ i \in 1..Len(page_queue)
    /\ page_queue[i].st = "inflight"
    /\ page_queue' = [page_queue EXCEPT ![i].st = "arrived", ![i].answer = answer]
    /\ page_ready' = Append(page_ready, page_queue[i].page)
    /\ page_log' = (page_queue[i].page :> answer) @@ page_log
    /\ UNCHANGED <<Units, Params, num_pages, pc, pagination, returned, iter, remaining,
                   pages_done, page_fetches, Stage2, emitted, game_log>>

\* The server answers a detail-page fetch in flight; the future is woken.
GameAnswer(i, answer) ==
    /\ pc = "crawl"
    /\ i \in 1..Len(game_queue)
    /\ game_queue[i].st = "inflight"
    /\ game_queue' = [game_queue EXCEPT ![i].st = "arrived", ![i].answer = answer]
    /\ game_ready' = Append(game_ready, <<game_queue[i].page, game_queue[i].idx>>)
    /\ game_log' = (<<game_queue[i].page, game_queue[i].idx>> :> answer) @@ game_log
    /\ UNCHANGED <<Units, Params, num_pages, pc, pagination, returned, Stage1, flat_next,
                   urls_done, game_fetches, emitted, page_log>>

\* A server never answers a fetch in flight.  reqwest::get sets no timeout,
\* so the future stays pending.
PaginationSilent ==
    /\ pc = "pagination"
    /\ pagination = "inflight"
    /\ pagination' = "silent"
    /\ UNCHANGED <<Units, Params, num_pages, pc, returned, Stage1, Stage2, emitted, page_log, game_log>>

PageSilent(i) ==
    /\ pc = "crawl"
    /\ i \in 1..Len(page_queue)
    /\ page_queue[i].st = "inflight"
    /\ page_queue' = [page_queue EXCEPT ![i].st = "silent"]
    /\ UNCHANGED <<Units, Params, num_pages, pc, pagination, returned, iter, remaining,
                   pages_done, page_ready, page_fetches, Stage2, emitted, page_log, game_log>>

GameSilent(i) ==
    /\ pc = "crawl"
    /\ i \in 1..Len(game_queue)
    /\ game_queue[i].st = "inflight"
    /\ game_queue' = [game_queue EXCEPT ![i].st = "silent"]
    /\ UNCHANGED <<Units, Params, num_pages, pc, pagination, returned, Stage1, flat_next,
                   urls_done, game_ready, game_fetches, emitted, page_log, game_log>>

GameAnswers == {Answer(d) : d \in ServedDocs}

PaginationAnswered == \E a \in PaginationAnswers : GetNumPagesAnswer(a)
PageAnswered == \E i \in 1..MaxBuf, a \in PageAnswers : PageAnswer(i, a)
GameAnswered == \E i \in 1..MaxBuf, a \in GameAnswers : GameAnswer(i, a)
Silent == PaginationSilent \/ (\E i \in 1..MaxBuf : PageSilent(i) \/ GameSilent(i))

\* Every server answers.
NextAnswering ==
    \/ GetNumPagesStart
    \/ PaginationAnswered
    \/ Poll
    \/ PageAnswered
    \/ GameAnswered

Spec == Init /\ [][NextAnswering]_vars

\* Servers may also stay silent.
Next == NextAnswering \/ Silent

\* The executor polls the stream while a poll can make progress, and every
\* fetch whose server answers is answered in the end.
Fairness ==
    /\ WF_vars(GetNumPagesStart)
    /\ WF_vars(PaginationAnswered)
    /\ WF_vars(Poll)
    /\ WF_vars(PageAnswered)
    /\ WF_vars(GameAnswered)

\* Every fetch eventually completes.
FairSpec == Init /\ [][NextAnswering]_vars /\ Fairness

\* Some fetches are never answered.
SilentSpec == Init /\ [][Next]_vars /\ Fairness

\* LeetxScraper::new takes any usize for its buffer factors, zero too.
NewAccepts == 0..MaxBuf

\* Every fetch eventually completes, the scraper built with any factors that
\* new accepts.
ZeroSpec == InitWith(NewAccepts) /\ [][NextAnswering]_vars /\ Fairness

----------------------------------------------------------------------------
\* The functions of the scraper and of the library, each called on its own
\* with the text the pipeline abstracts from.

\* A detail document with the text of its subtitle and of its info block:
\* the subtitle is the first text node of the second span, the info block
\* the text nodes (fragments) of the paragraph found by skip_while.
Regions(doc) ==
    [name |-> doc.name, subtitle |-> doc.subtitle.some, hash |-> doc.hash,
     size |-> doc.size, info |-> doc.info.some]

NoGame ==
    [id |-> 0, name |-> "", hash |-> "", version |-> None, size |-> "", tags |-> {},
     description |-> <<>>, genres |-> {}, languages |-> {}]

\* text.contains("Genre:") with the colon left out.
IsGenre_NoColon(text) == Contains(text, <<"Genre">>)

\* text.contains("Genre:")
IsGenre(text) == Contains(text, <<"Genre", ":">>)

\* text.contains("Language:")
IsLanguage(text) == Contains(text, <<"Language", ":">>)

\* The body of the extractor's loop with the test of description_state last.
Extract_FlagTestedLast(l, text) ==
    IF IsGenre(text)
    THEN LET r == parse_items(text)
         IN IF r.ok THEN [l EXCEPT !.genres = r.items] ELSE [l EXCEPT !.err = r.err]
    ELSE IF IsLanguage(text)
    THEN LET r == parse_items(text)
         IN IF r.ok THEN [l EXCEPT !.languages = r.items] ELSE [l EXCEPT !.err = r.err]
    ELSE IF l.description_state
    THEN [l EXCEPT !.description = @ \o strip_prefix(text, " ")]
    ELSE IF Contains(text, <<"Description">>)
    THEN [l EXCEPT !.description_state = TRUE]
    ELSE l

\* The body of the extractor's loop with the items of a list added to the
\* set built so far.
Extract_Merging(l, text) ==
    IF l.description_state
    THEN [l EXCEPT !.description = @ \o strip_prefix(text, " ")]
    ELSE IF IsGenre(text)
    THEN LET r == parse_items(text)
         IN IF r.ok THEN [l EXCEPT !.genres = @ \cup r.items] ELSE [l EXCEPT !.err = r.err]
    ELSE IF IsLanguage(text)
    THEN LET r == parse_items(text)
         IN IF r.ok THEN [l EXCEPT !.languages = @ \cup r.items] ELSE [l EXCEPT !.err = r.err]
    ELSE IF Contains(text, <<"Description">>)
    THEN [l EXCEPT !.description_state = TRUE]
    ELSE l

\* The body of the loop `for text in info_box.text()` on the locals l; err
\* is the error that `?` returns.
Extract(l, text) ==
    IF l.description_state
    THEN [l EXCEPT !.description = @ \o strip_prefix(text, " ")]
    ELSE IF IsGenre(text)
    THEN LET r == parse_items(text)
         IN IF r.ok THEN [l EXCEPT !.genres = r.items] ELSE [l EXCEPT !.err = r.err]
    ELSE IF IsLanguage(text)
    THEN LET r == parse_items(text)
         IN IF r.ok THEN [l EXCEPT !.languages = r.items] ELSE [l EXCEPT !.err = r.err]
    ELSE IF Contains(text, <<"Description">>)
    THEN [l EXCEPT !.description_state = TRUE]
    ELSE l

\* The id RE_ID takes from the url a link resolves to.
IdOf(link) == IF link = "ok" THEN 1 ELSE 0

\* LibraryFetcher::load_games: the entries that are kept (directories that
\* are not ignored and hold a start script) get the ids 0, 1, ... in the
\* order they are read; the games are then sorted by name (sort_by is
\* stable).  A name is given by its rank in the order of strings.
sort_by_name(games) ==
    LET n == Len(games)
        rank(i) == 1 + Cardinality({j \in 1..n :
                          \/ games[j].name < games[i].name
                          \/ games[j].name = games[i].name /\ j < i})
    IN [k \in 1..n |-> games[CHOOSE i \in 1..n : rank(i) = k]]

load_games(entries) ==
    LET kept == SelectSeq(entries, LAMBDA e : e.kept)
    IN sort_by_name([i \in 1..Len(kept) |-> [id |-> i - 1, name |-> kept[i].name]])

\* LibraryFetcher::get_game: games.get(position(|g| g.id == id).unwrap_or(0))
get_game(games, id) ==
    LET found == {i \in 1..Len(games) : games[i].id = id}
        position == IF found = {} THEN 0
                    ELSE (CHOOSE i \in found : \A k \in found : i <= k) - 1
    IN IF position + 1 <= Len(games) THEN Some(games[position + 1]) ELSE None

\* The inputs.
TagSymbols == {"[", "]", " ", "johncena141", "GNU/Linux", "Wine", "Action"}

TagsExample ==
    <<"[", "johncena141", "]", " ", "[", "GNU/Linux", " ", "Native", "]", " ",
      "[", "Action", "]">>

TagSubtitles == SeqsUpTo(TagSymbols, MaxStr) \cup {TagsExample}

VersionSymbols == {" ", "\t", "[", "]", "1.2.3", "Wine"}

VersionSubtitles == SeqsUpTo(VersionSymbols, MaxStr)

HrefSymbols == {"/", "4", "2", "x"}

Hrefs == SeqsUpTo(HrefSymbols, MaxStr)

Fragments ==
    { <<"Genre", ":", " ", "A", ",", " ", "B">>,
      <<"Language", ":", " ", "C">>,
      <<"Description">>,
      <<"Hello", " ">>,
      <<" ", "world">>,
      <<"Genre", " ", "A">>,
      <<"Description", " ", "Genre", ":", " ", "X">>,
      <<"Genre", ":", " ", "johncena141", ",", " ", "GNU/Linux", " ", "Wine">>,
      <<"Language", ":", "GNU/Linux", " ", "Native", "\n">>,
      <<"Genre", ":", " ", "D", ",", " ", "Language", ":", " ", "E">> }

InfoExample ==
    << <<"Genre", ":", " ", "A", ",", " ", "B">>, <<"Language", ":", " ", "C">>,
       <<"Description">>, <<"Hello", " ">>, <<"world">> >>

InfoBlocks == SeqsUpTo(Fragments, MaxFragments) \cup {InfoExample}

DetailSubtitles == {<<"1.2.3", " ", "[", "Wine", "]">>, TagsExample}

\* The documents by the regions they lack, and the full documents by their
\* text.
RegionDocs ==
    {[name |-> n, subtitle |-> IF s THEN Some(TagsExample) ELSE None, hash |-> h,
      size |-> z, info |-> IF i THEN Some(InfoExample) ELSE None] :
        n \in BOOLEAN, s \in BOOLEAN, h \in BOOLEAN, z \in BOOLEAN, i \in BOOLEAN}

TextDocs ==
    {[name |-> TRUE, subtitle |-> Some(s), hash |-> TRUE, size |-> TRUE, info |-> Some(f)] :
        s \in DetailSubtitles, f \in InfoBlocks}

NoDoc == [name |-> FALSE, subtitle |-> None, hash |-> FALSE, size |-> FALSE, info |-> None]

ParseGameArgs ==
    {[link |-> l, http |-> TRUE, doc |-> d] : l \in LinkKinds, d \in RegionDocs \cup TextDocs}
    \cup {[link |-> l, http |-> FALSE, doc |-> NoDoc] : l \in LinkKinds}

GetNumPagesArgs ==
    {[http |-> FALSE, doc |-> [link |-> FALSE, href |-> <<>>]],
     [http |-> TRUE, doc |-> [link |-> FALSE, href |-> <<>>]]}
    \cup {[http |-> TRUE, doc |-> [link |-> TRUE, href |-> h]] : h \in Hrefs}

ParsePageArgs == {[page |-> p, answer |-> a] : p \in 1..MaxPages, a \in PageAnswers}

LibraryArgs == SeqsUpTo([name : 1..MaxGames, kept : BOOLEAN], MaxGames)

\* info_box of parse_game: the paragraphs of "#description p" are skipped
\* while all their strong elements have a first text node that holds
\* neither "Info" nor "Description" (a strong element without text makes
\* the test false: unwrap_or(false)); the first one not skipped is taken.
\* A paragraph is given by the first text nodes of its strong elements.
info_box(paragraphs) ==
    LET skipped(p) ==
            \A i \in 1..Len(p) :
                IF p[i].some
                THEN ~Contains(p[i].val, <<"Info">>) /\ ~Contains(p[i].val, <<"Description">>)
                ELSE FALSE
        taken == {i \in 1..Len(paragraphs) : ~skipped(paragraphs[i])}
    IN IF taken = {} THEN [found |-> FALSE, index |-> 0]
       ELSE [found |-> TRUE, index |-> CHOOSE i \in taken : \A k \in taken : i <= k]

Headings == {None, Some(<<"Info">>), Some(<<"Game", " ", "Description">>), Some(<<"Name">>)}

Paragraphs == SeqsUpTo(Headings, MaxHeadings)

DescriptionParagraphs == SeqsUpTo(Paragraphs, MaxFragments)

\* A scraper made by LeetxScraper::new with some uploader, and the subtitle
\* of a detail page it parses.
Uploaders == {"johncena141", "someone"}

UploaderSubtitles == SeqsUpTo({"[", "]", "johncena141", "someone"}, MaxFragments)

RecordTagsArgs == [uploader : Uploaders, subtitle : UploaderSubtitles]

\* The lines given to parse_items called on its own.
ItemSymbols == {"Genre", ":", " ", ",", "A", "\n"}

ItemsExample == <<"Genre", ":", " ", "A", ":", "B", ",", " ", "C">>

ItemLines == SeqsUpTo(ItemSymbols, MaxStr) \cup {ItemsExample}

\* DatabaseFetcher::get_games: the rows asked of the database, the first and
\* the last given to range(); page_size is 1 at least here.
get_games(opts) ==
    [from |-> opts.page_number, to |-> opts.page_number + opts.page_size - 1]

GetGamesOpts == [page_number : 0..MaxPages, page_size : 1..MaxGames]

\* DownloadManager: the names and the backends of torrent clients.
ClientNames == {"a", "b"}

Backends == {"deluge", "qbittorrent"}

NoClient == "none"

\* DownloadManager::new: no client is connected.  connects counts the
\* connections started, calls the calls made; op, name, config and last are
\* the last call, its arguments and what load_client returned.
DownloadManager_new ==
    [clients |-> [n \in ClientNames |-> NoClient], connects |-> 0, calls |-> 0,
     op |-> "new", name |-> "", config |-> "", last |-> "Ok"]

\* All the variables of the pipeline.
Pipeline ==
    <<page_buf_factor, game_buf_factor, mode, first_page, num_pages, pc, pagination,
      returned, iter, remaining, pages_done, page_queue, page_ready, flat_next,
      urls_done, game_queue, game_ready, emitted, page_fetches, game_fetches,
      page_log, game_log>>

\* No crawl is made.
NoCrawl ==
    /\ page_buf_factor = 1
    /\ game_buf_factor = 1
    /\ mode = "n_pages"
    /\ first_page = 1
    /\ num_pages = 0
    /\ pc = "none"
    /\ pagination = "none"
    /\ returned = NoErr
    /\ iter = 1
    /\ remaining = 0
    /\ pages_done = FALSE
    /\ page_queue = <<>>
    /\ page_ready = <<>>
    /\ flat_next = <<>>
    /\ urls_done = FALSE
    /\ game_queue = <<>>
    /\ game_ready = <<>>
    /\ emitted = <<>>
    /\ page_fetches = <<>>
    /\ game_fetches = <<>>
    /\ page_log = [p \in {} |-> PageFailed]
    /\ game_log = [it \in {} |-> NoAnswer]

\* One function is called with one argument.
UnitInit ==
    /\ NoCrawl
    /\ \/ called = "parse_tags" /\ arg \in TagSubtitles
       \/ called = "version" /\ arg \in VersionSubtitles
       \/ called = "parse_game" /\ arg \in ParseGameArgs
       \/ called = "get_num_pages" /\ arg \in GetNumPagesArgs
       \/ called = "parse_page" /\ arg \in ParsePageArgs
       \/ called = "library" /\ arg \in LibraryArgs
       \/ called = "download" /\ arg = <<>>
       \/ called = "record_tags" /\ arg \in RecordTagsArgs
       \/ called = "info_box" /\ arg \in DescriptionParagraphs
       \/ called = "parse_items" /\ arg \in ItemLines
       \/ called = "get_games" /\ arg \in GetGamesOpts
    /\ locals = CASE called = "library" -> [games |-> <<>>]
                  [] called = "download" -> DownloadManager_new
                  [] OTHER -> <<>>
    /\ ret = <<>>
    /\ step = "call"

ParseTags ==
    /\ called = "parse_tags" /\ step = "call"
    /\ ret' = parse_tags(arg)
    /\ step' = "done"
    /\ UNCHANGED <<called, arg, locals, Pipeline>>

Version ==
    /\ called = "version" /\ step = "call"
    /\ ret' = version(arg)
    /\ step' = "done"
    /\ UNCHANGED <<called, arg, locals, Pipeline>>

GetNumPages ==
    /\ called = "get_num_pages" /\ step = "call"
    /\ ret' = get_num_pages(arg)
    /\ step' = "done"
    /\ UNCHANGED <<called, arg, locals, Pipeline>>

\* parse_page: the url is made by format!, fetched, and the answer parsed;
\* fetches counts the fetches started.
ParsePage ==
    /\ called = "parse_page" /\ step = "call"
    /\ locals' = [fetches |-> 1]
    /\ ret' = parse_page(arg.page, arg.answer)
    /\ step' = "done"
    /\ UNCHANGED <<called, arg, Pipeline>>

\* parse_game with reqwest::get issued before the url and the id are checked.
ParseGameUrl_FetchFirst ==
    /\ called = "parse_game" /\ step = "call"
    /\ locals' = [fetches |-> 1]
    /\ step' = "fetch"
    /\ UNCHANGED <<called, arg, ret, Pipeline>>

\* parse_game up to its await: the url is joined and the id taken from it,
\* either failing returns at once; then reqwest::get is issued.
ParseGameUrl ==
    /\ called = "parse_game" /\ step = "call"
    /\ IF parse_game_url(arg.link) # NoErr
       THEN /\ ret' = [ok |-> FALSE, game |-> NoGame, err |-> parse_game_url(arg.link)]
            /\ locals' = [fetches |-> 0]
            /\ step' = "done"
       ELSE /\ locals' = [fetches |-> 1]
            /\ step' = "fetch"
            /\ UNCHANGED ret
    /\ UNCHANGED <<called, arg, Pipeline>>

\* parse_game from the answer of its fetch up to the extractor's loop: the
\* five regions.
ParseGameRegions ==
    /\ called = "parse_game" /\ step = "fetch"
    /\ LET e == parse_game([link |-> arg.link,
                            answer |-> [http |-> arg.http, doc |-> Regions(arg.doc)]])
       IN IF e # NoErr
          THEN /\ ret' = [ok |-> FALSE, game |-> NoGame, err |-> e]
               /\ step' = "done"
               /\ UNCHANGED locals
          ELSE /\ locals' = [description_state |-> FALSE, description |-> <<>>,
                             genres |-> {}, languages |-> {}, err |-> NoErr, text |-> 1,
                             fetches |-> locals.fetches]
               /\ step' = "run"
               /\ UNCHANGED ret
    /\ UNCHANGED <<called, arg, Pipeline>>

\* One turn of the extractor's loop.
ParseGameExtract ==
    /\ called = "parse_game" /\ step = "run"
    /\ locals.text <= Len(arg.doc.info.val)
    /\ LET l == Extract(locals, arg.doc.info.val[locals.text])
       IN IF l.err # NoErr
          THEN /\ ret' = [ok |-> FALSE, game |-> NoGame, err |-> l.err]
               /\ step' = "done"
               /\ UNCHANGED locals
          ELSE /\ locals' = [l EXCEPT !.text = @ + 1]
               /\ UNCHANGED <<ret, step>>
    /\ UNCHANGED <<called, arg, Pipeline>>

\* Ok(Game { .. }) after the loop.
ParseGameReturn ==
    /\ called = "parse_game" /\ step = "run"
    /\ locals.text > Len(arg.doc.info.val)
    /\ ret' = [ok |-> TRUE, err |-> NoErr,
               game |-> [id |-> IdOf(arg.link), name |-> "name", hash |-> "hash",
                         version |-> version(arg.doc.subtitle.val), size |-> "size",
                         tags |-> parse_tags(arg.doc.subtitle.val),
                         description |-> locals.description,
                         genres |-> locals.genres, languages |-> locals.languages]]
    /\ step' = "done"
    /\ UNCHANGED <<called, arg, locals, Pipeline>>

LoadGames ==
    /\ called = "library" /\ step = "call"
    /\ locals' = [games |-> load_games(arg)]
    /\ step' = "run"
    /\ UNCHANGED <<called, arg, ret, Pipeline>>

\* get_game, before or after load_games.
GetGame(id) ==
    /\ called = "library" /\ step \in {"call", "run"}
    /\ ret' = [id |-> id, game |-> get_game(locals.games, id)]
    /\ step' = "done"
    /\ UNCHANGED <<called, arg, locals, Pipeline>>

GetGameCalled == \E id \in 0..MaxGames : GetGame(id)

\* The info block is found, or parse_game fails with the error of "info".
InfoBox ==
    /\ called = "info_box" /\ step = "call"
    /\ ret' = [found |-> info_box(arg).found, index |-> info_box(arg).index,
               err |-> IF info_box(arg).found THEN NoErr ELSE ScrapeError_game("info")]
    /\ step' = "done"
    /\ UNCHANGED <<called, arg, locals, Pipeline>>

\* The tags of a record a scraper emits: parse_game is an associated
\* function without self, and gives parse_tags the subtitle alone.
RecordTags ==
    /\ called = "record_tags" /\ step = "call"
    /\ ret' = parse_tags(arg.subtitle)
    /\ step' = "done"
    /\ UNCHANGED <<called, arg, locals, Pipeline>>

ParseItems ==
    /\ called = "parse_items" /\ step = "call"
    /\ ret' = parse_items(arg)
    /\ step' = "done"
    /\ UNCHANGED <<called, arg, locals, Pipeline>>

GetGames ==
    /\ called = "get_games" /\ step = "call"
    /\ ret' = get_games(arg)
    /\ step' = "done"
    /\ UNCHANGED <<called, arg, locals, Pipeline>>

\* load_client without the test of contains_key.
LoadClient_AlwaysConnects(name, config) ==
    /\ called = "download" /\ step = "call"
    /\ locals.calls < MaxCalls
    /\ locals' = [locals EXCEPT !.calls = @ + 1, !.connects = @ + 1,
                                !.op = "load_client", !.name = name, !.config = config]
    /\ step' = "run"
    /\ UNCHANGED <<called, arg, ret, Pipeline>>

\* load_client up to its await: Ok(()) at once for a name in the map, else
\* deluge_connect or qbittorrent_connect is started.  (&mut self: no other
\* call runs before this one returns.)  load_config is a sequence of these
\* calls whose errors are dropped.
LoadClient(name, config) ==
    /\ called = "download" /\ step = "call"
    /\ locals.calls < MaxCalls
    /\ IF locals.clients[name] # NoClient
       THEN /\ locals' = [locals EXCEPT !.calls = @ + 1, !.op = "load_client",
                                       !.name = name, !.config = config, !.last = "Ok"]
            /\ UNCHANGED step
       ELSE /\ locals' = [locals EXCEPT !.calls = @ + 1, !.connects = @ + 1,
                                       !.op = "load_client", !.name = name,
                                       !.config = config]
            /\ step' = "run"
    /\ UNCHANGED <<called, arg, ret, Pipeline>>

\* The connection answers: the client is inserted, or `?` returns the error.
LoadClientConnected(ok) ==
    /\ called = "download" /\ step = "run"
    /\ locals' = IF ok
                 THEN [locals EXCEPT !.clients[locals.name] = locals.config, !.last = "Ok"]
                 ELSE [locals EXCEPT !.last = "Err"]
    /\ step' = "call"
    /\ UNCHANGED <<called, arg, ret, Pipeline>>

AddClient(name, client) ==
    /\ called = "download" /\ step = "call"
    /\ locals.calls < MaxCalls
    /\ locals' = [locals EXCEPT !.calls = @ + 1, !.op = "add_client", !.name = name,
                                !.config = client, !.clients[name] = client]
    /\ UNCHANGED <<called, arg, ret, step, Pipeline>>

RemoveClient(name) ==
    /\ called = "download" /\ step = "call"
    /\ locals.calls < MaxCalls
    /\ locals' = [locals EXCEPT !.calls = @ + 1, !.op = "remove_client", !.name = name,
                                !.config = "", !.clients[name] = NoClient]
    /\ UNCHANGED <<called, arg, ret, step, Pipeline>>

LoadClientCalled == \E name \in ClientNames, config \in Backends : LoadClient(name, config)

LoadClientAnswered == \E ok \in BOOLEAN : LoadClientConnected(ok)

AddClientCalled == \E name \in ClientNames, client \in Backends : AddClient(name, client)

RemoveClientCalled == \E name \in ClientNames : RemoveClient(name)

UnitNext ==
    \/ ParseTags
    \/ Version
    \/ GetNumPages
    \/ ParsePage
    \/ ParseGameUrl
    \/ ParseGameRegions
    \/ ParseGameExtract
    \/ ParseGameReturn
    \/ LoadGames
    \/ GetGameCalled
    \/ GetGames
    \/ ParseItems
    \/ InfoBox
    \/ RecordTags
    \/ LoadClientCalled
    \/ LoadClientAnswered
    \/ AddClientCalled
    \/ RemoveClientCalled

UnitSpec == UnitInit /\ [][UnitNext]_vars

----------------------------------------------------------------------------
\* Vocabulary of the claims.

\* The page numbers of the crawl.
CrawlPages == first_page..(first_page + num_pages - 1)

\* Positions of the outcomes emitted for one source.
EmittedOf(src, page, idx) ==
    {j \in 1..Len(emitted) :
        emitted[j].src = src /\ emitted[j].page = page /\ emitted[j].idx = idx}

EmittedOfPage(page) == {j \in 1..Len(emitted) : emitted[j].page = page}

\* Crawl order: ascending page, then document order of the links.
Before(a, b) == a.page < b.page \/ (a.page = b.page /\ a.idx < b.idx)

Ended == pc = "ended"

\* Futures of a queue that have been polled and not yet yielded.
Started(queue) == {i \in 1..Len(queue) : queue[i].st # "created"}

\* A fetched detail document without its hash region (name and subtitle there).
HashAbsent(answer) ==
    answer.http /\ answer.doc.name /\ answer.doc.subtitle /\ ~answer.doc.hash

----------------------------------------------------------------------------
\* C1: when the stream of get_games_n_pages has ended, it has emitted exactly
\* one outcome per link of every fetched page (none for an empty page) and
\* exactly one failing outcome per failed page, and nothing else.
C1_OneOutcomePerItemAndFailedPage ==
    Ended =>
        /\ DOMAIN page_log = CrawlPages
        /\ \A p \in CrawlPages :
              IF page_log[p].ok
              THEN /\ \A i \in 1..Len(page_log[p].links) :
                         Cardinality(EmittedOf("game", p, i)) = 1
                   /\ Cardinality(EmittedOfPage(p)) = Len(page_log[p].links)
              ELSE /\ Cardinality(EmittedOf("page", p, 0)) = 1
                   /\ Cardinality(EmittedOfPage(p)) = 1
                   /\ \A j \in EmittedOfPage(p) : emitted[j].err # NoErr
        /\ \A j \in 1..Len(emitted) : emitted[j].page \in CrawlPages

C1_Witness ==
    /\ Ended
    /\ \E p \in CrawlPages : ~page_log[p].ok
    /\ \E p \in CrawlPages : page_log[p].ok /\ Len(page_log[p].links) = 0
    /\ \E p \in CrawlPages : page_log[p].ok /\ Len(page_log[p].links) = MaxLinks

\* C2: when every fetch completes, a crawl ends, and when it does every item
\* of every fetched page has its outcome emitted, whatever pages failed.
C2_Outcome ==
    \/ pc = "failed"
    \/ /\ Ended
       /\ DOMAIN page_log = CrawlPages
       /\ \A p \in CrawlPages :
             page_log[p].ok =>
                 \A i \in 1..Len(page_log[p].links) : EmittedOf("game", p, i) # {}

C2_FailedPageIsNotFatal == <>C2_Outcome

C2_Witness ==
    /\ Ended
    /\ \E k \in CrawlPages :
          /\ ~page_log[k].ok
          /\ k - 1 \in CrawlPages /\ EmittedOf("game", k - 1, 1) # {}
          /\ k + 1 \in CrawlPages /\ EmittedOf("game", k + 1, 1) # {}

\* C3: an item whose fetched document lacks the hash region (name and
\* subtitle present) gets exactly one outcome, the Game error naming "hash",
\* and when the stream has ended every other discovered item has its outcome.
C3_MissingHashIsOneFailingOutcome ==
    /\ \A j \in 1..Len(emitted) :
          emitted[j].src = "game" /\ HashAbsent(emitted[j].answer) =>
              /\ emitted[j].err = ScrapeError_game("hash")
              /\ EmittedOf("game", emitted[j].page, emitted[j].idx) = {j}
    /\ Ended =>
          /\ \A it \in DOMAIN game_log : EmittedOf("game", it[1], it[2]) # {}
          /\ \A p \in DOMAIN page_log : \A i \in 1..Len(page_log[p].links) :
                EmittedOf("game", p, i) # {}

C3_Witness ==
    /\ Ended
    /\ \E j \in 1..Len(emitted) :
          /\ emitted[j].src = "game" /\ HashAbsent(emitted[j].answer)
          /\ j < Len(emitted)

\* C4: at most page_buf_factor listing-page fetches are started and not yet
\* handed to the item stage.
C4_PageFetchesBounded ==
    Cardinality({p \in Range(page_fetches) :
                    \E i \in 1..Len(page_queue) : page_queue[i].page = p})
        <= page_buf_factor

C4_Witness ==
    /\ page_buf_factor = MaxBuf
    /\ Cardinality(Started(page_queue)) = MaxBuf

\* C5: at most game_buf_factor detail-page parses are started and not yet
\* emitted.
C5_GameParsesBounded == Cardinality(Started(game_queue)) <= game_buf_factor

C5_Witness ==
    /\ game_buf_factor = MaxBuf
    /\ Cardinality(Started(game_queue)) = MaxBuf
    /\ \E i \in 1..Len(game_queue) : game_queue[i].st = "inflight"

\* C6: the listing-page fetches started are those of first_page ..
\* first_page + num_pages - 1, each once, and all of them once the stream
\* has ended; no future is made for a later page.
C6_ExactlyTheRequestedPages ==
    /\ \A i \in 1..Len(page_fetches) :
          /\ page_fetches[i] \in CrawlPages
          /\ \A j \in 1..Len(page_fetches) : page_fetches[j] = page_fetches[i] => j = i
    /\ iter <= first_page + num_pages
    /\ Ended => Range(page_fetches) = CrawlPages

C6_Witness ==
    /\ Ended
    /\ first_page > 1
    /\ num_pages > page_buf_factor
    /\ Len(page_fetches) = num_pages

\* C7: get_all_games starts no crawl fetch before get_num_pages has returned
\* Ok, and when get_num_pages fails it returns that error and nothing is
\* ever fetched or emitted.
C7_PaginationFailureIsFatal ==
    /\ mode = "all" /\ pagination # "ok" =>
          /\ page_fetches = <<>> /\ game_fetches = <<>>
          /\ page_queue = <<>> /\ game_queue = <<>>
          /\ emitted = <<>>
    /\ pagination = "err" <=> pc = "failed"
    /\ pc = "failed" <=> returned # NoErr
    /\ returned \in {NoErr, HttpError, ScrapeError_page("pagination", 1),
                     ScrapeError_page("page number from pagination link", 1)}

C7_Witness == mode = "all" /\ pc = "failed" /\ returned.kind = "Page"

\* C8: the Ok outcomes are emitted in crawl order.
C8_OkOutcomesInCrawlOrder ==
    \A i, j \in 1..Len(emitted) :
        i < j /\ emitted[i].err = NoErr /\ emitted[j].err = NoErr =>
            Before(emitted[i], emitted[j])

\* An Ok outcome is out, a later item of another page has its document while
\* an earlier item is in flight, and the next page has answered.
C8_Witness ==
    /\ \E j \in 1..Len(emitted) : emitted[j].err = NoErr
    /\ Len(game_queue) = 2
    /\ game_queue[1].st = "inflight"
    /\ game_queue[2].st = "output" /\ parse_game(game_queue[2]) = NoErr
    /\ game_queue[1].page < game_queue[2].page
    /\ \E i \in 1..Len(page_queue) : page_queue[i].st = "arrived"

\* C9 as claimed: a completed item is never held back behind an earlier item
\* that is still in flight.
C9_AsClaimed ==
    \A i \in 2..Len(game_queue) :
        ~(game_queue[i].st = "output" /\ game_queue[1].st = "inflight")

\* C9 as amended: item outcomes are emitted in discovery order; an outcome is
\* emitted only after the outcome of every item discovered before it.
C9_ItemOutcomesInDiscoveryOrder ==
    /\ \A i, j \in 1..Len(emitted) :
          i < j /\ emitted[i].src = "game" /\ emitted[j].src = "game" =>
              Before(emitted[i], emitted[j])
    /\ \A j \in 1..Len(emitted) : \A i \in 1..Len(game_queue) :
          emitted[j].src = "game" => Before(emitted[j], game_queue[i])

C9_Witness ==
    /\ Len(emitted) >= 2
    /\ \A j \in 1..Len(emitted) : emitted[j].src = "game"
    /\ \E i \in 2..Len(game_queue) :
          game_queue[i].st = "output" /\ game_queue[1].st = "inflight"

\* C10 as claimed: a fetch that is never answered ends as a Transport
\* failure, so the call still ends.
C10_AsClaimed == <>(pc \in {"ended", "failed"})

----------------------------------------------------------------------------
\* C11: parse_game returns Ok(record) exactly when the link resolves to an url
\* with an id, the document is fetched and its five regions (name, subtitle,
\* hash, size, info) are all there; the record then has the id of that url
\* and the version, tags, description, genres and languages of that one
\* document; in every other case it returns an error and no record.
C11_NoPartialRecord ==
    (called = "parse_game" /\ step = "done") =>
        /\ ret.ok <=> /\ arg.link = "ok"
                      /\ arg.http
                      /\ arg.doc.name /\ arg.doc.subtitle.some /\ arg.doc.hash
                      /\ arg.doc.size /\ arg.doc.info.some
        /\ ret.ok => /\ ret.err = NoErr
                     /\ ret.game.id = IdOf(arg.link)
                     /\ ret.game.tags = parse_tags(arg.doc.subtitle.val)
                     /\ ret.game.version = version(arg.doc.subtitle.val)
                     /\ ret.game.name # "" /\ ret.game.hash # "" /\ ret.game.size # ""
        /\ ~ret.ok => ret.err # NoErr /\ ret.game = NoGame

\* A record returned for a full document whose info block holds a description.
C11_Witness ==
    /\ called = "parse_game" /\ step = "done"
    /\ ret.ok
    /\ ret.game.description # <<>>
    /\ ret.game.genres # {}

----------------------------------------------------------------------------
\* What the fragments of an info block say.  A marker is a fragment that
\* sets the description flag when it is met with the flag unset.
Markers(fragments) ==
    {i \in 1..Len(fragments) :
        /\ Contains(fragments[i], <<"Description">>)
        /\ ~Contains(fragments[i], <<"Genre", ":">>)
        /\ ~Contains(fragments[i], <<"Language", ":">>)}

\* The index of the first marker, past the end when there is none.
FirstMarker(fragments) ==
    IF Markers(fragments) = {} THEN Len(fragments) + 1
    ELSE CHOOSE i \in Markers(fragments) : \A k \in Markers(fragments) : i <= k

\* The fragments from index `from` on, one leading space taken off each,
\* put together in order.
RECURSIVE Concatenated(_, _)
Concatenated(fragments, from) ==
    IF from > Len(fragments) THEN <<>>
    ELSE (IF fragments[from] # <<>> /\ fragments[from][1] = " "
          THEN Tail(fragments[from]) ELSE fragments[from])
         \o Concatenated(fragments, from + 1)

\* The last fragment before the first marker that holds `word:` and none of
\* the words of `but`, as a set of at most one index.
LastList(fragments, word, but) ==
    LET lists == {i \in 1..(FirstMarker(fragments) - 1) :
                     /\ Contains(fragments[i], <<word, ":">>)
                     /\ \A w \in but : ~Contains(fragments[i], <<w, ":">>)}
    IN {i \in lists : \A k \in lists : k <= i}

\* What a returned record holds of its info block.
C13_Extracted ==
    (called = "parse_game" /\ step = "done" /\ ret.ok) =>
        LET fragments == arg.doc.info.val
        IN /\ ret.game.description = Concatenated(fragments, FirstMarker(fragments) + 1)
           /\ \A i \in LastList(fragments, "Genre", {}) :
                  ret.game.genres = parse_items(fragments[i]).items
           /\ LastList(fragments, "Genre", {}) = {} => ret.game.genres = {}
           /\ \A i \in LastList(fragments, "Language", {"Genre"}) :
                  ret.game.languages = parse_items(fragments[i]).items
           /\ LastList(fragments, "Language", {"Genre"}) = {} => ret.game.languages = {}

\* The example of the extractor.
C13_Example ==
    (called = "parse_game" /\ step = "done" /\ ret.ok /\ arg.doc.info.val = InfoExample) =>
        /\ ret.game.genres = {<<"A">>, <<"B">>}
        /\ ret.game.languages = {<<"C">>}
        /\ ret.game.description = <<"Hello", " ", "world">>

\* One turn of the loop with the flag set.
C13_OneWay ==
    (called = "parse_game" /\ step = "run" /\ locals.description_state /\ step' = "run") =>
        /\ locals'.description_state
        /\ locals'.genres = locals.genres
        /\ locals'.languages = locals.languages
        /\ locals'.description =
              locals.description \o Concatenated(<<arg.doc.info.val[locals.text]>>, 1)

\* C13: the extractor is a one-way state machine over the fragments.  The
\* description of a record is the fragments after the first marker, in order,
\* each without one leading space; the marker adds nothing; genres and
\* languages are those of the last list fragment before the first marker;
\* once the flag is set it stays set, every further fragment is appended and
\* genres and languages no longer change; the example gives {A, B}, {C} and
\* "Hello world".
C13_ExtractorIsOneWay == [](C13_Extracted /\ C13_Example) /\ [][C13_OneWay]_vars

\* A list fragment met after the marker has been taken into the description
\* and has left the genres empty.
C13_Witness ==
    /\ called = "parse_game" /\ step = "done" /\ ret.ok
    /\ Len(arg.doc.info.val) > 2
    /\ FirstMarker(arg.doc.info.val) = 1
    /\ Contains(arg.doc.info.val[2], <<"Genre", ":">>)
    /\ Contains(ret.game.description, <<"Genre", ":">>)
    /\ ret.game.genres = {}

----------------------------------------------------------------------------
\* The bracketed groups of a subtitle: a "[" that does not lie in a group
\* opened before it, and the next "]", with no bracket between the two.
Groups(s) ==
    {g \in (1..Len(s)) \X (1..Len(s)) :
        /\ g[1] < g[2]
        /\ s[g[1]] = "[" /\ s[g[2]] = "]"
        /\ \A k \in (g[1] + 1)..(g[2] - 1) : s[k] \notin {"[", "]", "\n"}
        /\ \A k \in 1..(g[1] - 1) :
              s[k] = "[" => \E h \in (k + 1)..(g[1] - 1) : s[h] = "]"}

Uploader == <<"johncena141">>

Unrenamed == {<<"GNU/Linux", " ", "Wine">>, <<"GNU/Linux", " ", "Native">>}

\* The tag the claim gives to the text of a group.
TagOf(x) ==
    IF x = <<"GNU/Linux", " ", "Wine">> THEN <<"Wine">>
    ELSE IF x = <<"GNU/Linux", " ", "Native">> THEN <<"Native">>
    ELSE x

TagsAsClaimed(s, tags) ==
    /\ \A g \in Groups(s) :
          LET x == SubSeq(s, g[1] + 1, g[2] - 1)
          IN x # Uploader => TagOf(x) \in tags
    /\ \A t \in tags :
          \E i \in 1..Len(s), j \in 1..Len(s) :
              /\ i < j /\ s[i] = "[" /\ s[j] = "]"
              /\ SubSeq(s, i + 1, j - 1) # Uploader
              /\ t = TagOf(SubSeq(s, i + 1, j - 1))
    /\ Uploader \notin tags
    /\ tags \cap Unrenamed = {}

\* C14: parse_tags makes a tag of every bracketed group of the subtitle,
\* drops the group "johncena141" and renames "GNU/Linux Wine" to "Wine" and
\* "GNU/Linux Native" to "Native"; every tag is the text of some bracketed
\* part; the tags, those of a record too, never hold "johncena141",
\* "GNU/Linux Wine" or "GNU/Linux Native"; the example gives {Native, Action}.
C14_TagsOfGroups ==
    /\ (called = "parse_tags" /\ step = "done") =>
           /\ TagsAsClaimed(arg, ret)
           /\ arg = TagsExample => ret = {<<"Native">>, <<"Action">>}
    /\ (called = "parse_game" /\ step = "done" /\ ret.ok) =>
           TagsAsClaimed(arg.doc.subtitle.val, ret.game.tags)

\* The tags of the example, its uploader group dropped and one group renamed.
C14_Witness ==
    /\ called = "parse_tags" /\ step = "done"
    /\ arg = TagsExample
    /\ Cardinality(Groups(arg)) = 3
    /\ ret = {<<"Native">>, <<"Action">>}

----------------------------------------------------------------------------
\* C15: the genres and the languages of a record, like its tags, never hold
\* the uploader's tag nor the unrenamed literals "GNU/Linux Wine" and
\* "GNU/Linux Native".
C15_AsClaimed ==
    (called = "parse_game" /\ step = "done" /\ ret.ok) =>
        \A set \in {ret.game.tags, ret.game.genres, ret.game.languages} :
            Uploader \notin set /\ set \cap Unrenamed = {}

----------------------------------------------------------------------------
Whitespace == {" ", "\t", "\n"}

\* The first whitespace-delimited token of a string that starts with none.
FirstToken(s) ==
    LET stops == {i \in 1..Len(s) : s[i] \in Whitespace}
    IN IF stops = {} THEN s
       ELSE SubSeq(s, 1, (CHOOSE i \in stops : \A k \in stops : i <= k) - 1)

Bracketed(token) == token # <<>> /\ token[1] = "[" /\ token[Len(token)] = "]"

\* C16: for every subtitle (here: that starts with a token), the version is
\* absent when the first whitespace-delimited token is bracketed, and is
\* that token otherwise, whatever whitespace ends the token.
C16_AsClaimed ==
    (called = "version" /\ step = "done" /\ arg # <<>> /\ arg[1] \notin Whitespace) =>
        IF Bracketed(FirstToken(arg)) THEN ~ret.some
        ELSE ret.some /\ ret.val = FirstToken(arg)

----------------------------------------------------------------------------
\* C17: the failing outcome that stands for a listing page whose fetch failed
\* is a Page error that carries the number of that page.
C17_AsClaimed ==
    \A j \in 1..Len(emitted) :
        (emitted[j].src = "page" /\ ~page_log[emitted[j].page].ok) =>
            emitted[j].err.kind = "Page" /\ emitted[j].err.page = emitted[j].page

----------------------------------------------------------------------------
Slashes(href) == {i \in 1..Len(href) : href[i] = "/"}

\* The text between the last two slashes of a href with two slashes at least.
BetweenLastTwo(href) ==
    LET last == CHOOSE i \in Slashes(href) : \A k \in Slashes(href) : k <= i
        before == Slashes(href) \ {last}
        prev == CHOOSE i \in before : \A k \in before : k <= i
    IN SubSeq(href, prev + 1, last - 1)

\* The parts of a href between two slashes that hold digits only (or nothing).
DigitParts(href) ==
    {g \in Slashes(href) \X Slashes(href) :
        g[1] < g[2] /\ \A k \in (g[1] + 1)..(g[2] - 1) : href[k] \in Digits}

RightmostDigitPart(href) ==
    LET g == CHOOSE r \in DigitParts(href) : \A o \in DigitParts(href) : o[1] <= r[1]
    IN SubSeq(href, g[1] + 1, g[2] - 1)

\* The number a string of digits writes.
RECURSIVE NumberOf(_)
NumberOf(ds) ==
    IF ds = <<>> THEN 0
    ELSE 10 * NumberOf(SubSeq(ds, 1, Len(ds) - 1))
         + (CHOOSE n \in 0..9 : DigitSeq[n + 1] = ds[Len(ds)])

PageErrorOfPageOne(r) == ~r.ok /\ r.err.kind = "Page" /\ r.err.page = 1

\* C18 as claimed: pagination discovery returns the number written between
\* the last two slashes of the href, and fails with a Page error of page 1
\* when the link is absent or no digits stand there.
C18_AsClaimed ==
    (called = "get_num_pages" /\ step = "done" /\ arg.http) =>
        IF /\ arg.doc.link
           /\ Cardinality(Slashes(arg.doc.href)) >= 2
           /\ BetweenLastTwo(arg.doc.href) # <<>>
           /\ \A d \in Range(BetweenLastTwo(arg.doc.href)) : d \in Digits
        THEN ret.ok /\ ret.page = NumberOf(BetweenLastTwo(arg.doc.href))
        ELSE PageErrorOfPageOne(ret)

\* C18: pagination discovery returns the number written by the rightmost part
\* of the href that lies between two slashes and holds digits only, and
\* fails with a Page error of page 1 when the link is absent, the href has
\* no such part, or the rightmost such part is empty.
C18_RightmostDigitPart ==
    (called = "get_num_pages" /\ step = "done" /\ arg.http) =>
        IF /\ arg.doc.link
           /\ DigitParts(arg.doc.href) # {}
           /\ RightmostDigitPart(arg.doc.href) # <<>>
        THEN ret.ok /\ ret.page = NumberOf(RightmostDigitPart(arg.doc.href))
        ELSE PageErrorOfPageOne(ret)

\* 42 returned for a href that ends in /42/.
C18_Witness ==
    /\ called = "get_num_pages" /\ step = "done"
    /\ arg.doc.link
    /\ Len(arg.doc.href) = MaxStr
    /\ SubSeq(arg.doc.href, 2, MaxStr) = <<"/", "4", "2", "/">>
    /\ ret.ok /\ ret.page = 42

----------------------------------------------------------------------------
ErrorKinds == {"HttpError", "UrlError", "Page", "Game"}

\* C19: every error that parse_page, parse_game (the sources of the stream's
\* failing outcomes) and get_num_pages (the error get_all_games returns)
\* give is an HttpError, an UrlError, a Page or a Game error; parse_game
\* never fails with Other("items list").
C19_ErrorSetClosed ==
    (called \in {"parse_page", "parse_game", "get_num_pages"} /\ step = "done") =>
        IF ret.ok THEN ret.err = NoErr
        ELSE ret.err.kind \in ErrorKinds /\ ret.err # ScrapeError_Other("items list")

\* A record returned for an info block with a list and, before any marker,
\* a fragment that holds "Genre" without the colon.
C19_Witness ==
    /\ called = "parse_game" /\ step = "done" /\ ret.ok
    /\ ret.game.genres # {}
    /\ \E i \in 1..(FirstMarker(arg.doc.info.val) - 1) :
          /\ Contains(arg.doc.info.val[i], <<"Genre">>)
          /\ ~Contains(arg.doc.info.val[i], <<":">>)

----------------------------------------------------------------------------
\* C20: get_game(id) returns Some(g) only for a loaded game g with g.id = id,
\* and None when no loaded game has that id.
C20_AsClaimed ==
    (called = "library" /\ step = "done") =>
        IF \E i \in 1..Len(locals.games) : locals.games[i].id = ret.id
        THEN /\ ret.game.some
             /\ ret.game.val.id = ret.id
             /\ \E i \in 1..Len(locals.games) : locals.games[i] = ret.game.val
        ELSE ~ret.game.some

----------------------------------------------------------------------------
\* One step of the DownloadManager, as the claim has it.
C21_Step ==
    called = "download" =>
        \* a connection is started only by load_client for a name not in the map
        /\ locals'.connects # locals.connects =>
              /\ locals'.op = "load_client"
              /\ locals.clients[locals'.name] = NoClient
              /\ locals'.connects = locals.connects + 1
        \* load_client is called: the map is left alone, and for a name in
        \* the map it returns Ok without connecting
        /\ (locals'.calls # locals.calls /\ locals'.op = "load_client") =>
              /\ locals'.clients = locals.clients
              /\ locals.clients[locals'.name] # NoClient =>
                    /\ locals'.connects = locals.connects
                    /\ step' = "call" /\ locals'.last = "Ok"
        \* the connection answers: the name is inserted on success only
        /\ step = "run" =>
              locals'.clients =
                  IF locals'.last = "Ok"
                  THEN [locals.clients EXCEPT ![locals.name] = locals.config]
                  ELSE locals.clients

\* C21: load_client starts a connection only when no client of that name is
\* in the map; for a name in the map it starts none and leaves the map
\* unchanged; it changes the map only by inserting the name after a
\* connection that succeeded, a failed one returning the error with the map
\* unchanged; over every sequence of load_client, add_client, remove_client.
C21_LoadClientConnectsOnlyWhenAbsent == [][C21_Step]_vars

\* load_client has returned Ok for a name that add_client had put in the map,
\* no connection having been started.
C21_Witness ==
    /\ called = "download" /\ step = "call"
    /\ locals.op = "load_client" /\ locals.last = "Ok"
    /\ locals.clients[locals.name] # NoClient
    /\ locals.clients[locals.name] # locals.config
    /\ locals.connects = 0

----------------------------------------------------------------------------
\* C22: get_games with page number p (from 0) and page size s >= 1 asks for
\* the rows p*s .. p*s + s - 1, the s rows of page p.
C22_AsClaimed ==
    (called = "get_games" /\ step = "done") =>
        /\ ret.from = arg.page_number * arg.page_size
        /\ ret.to = arg.page_number * arg.page_size + arg.page_size - 1

----------------------------------------------------------------------------
\* Everything after the first colon of a line that has one.
AfterFirstColon(line) ==
    LET colons == {i \in 1..Len(line) : line[i] = ":"}
    IN SubSeq(line, (CHOOSE i \in colons : \A k \in colons : i <= k) + 1, Len(line))

\* C23: list parsing takes everything after the first colon of the fragment,
\* the text after a second colon too; one leading space and one trailing
\* line feed are trimmed, the text is split at the commas and one leading
\* space is trimmed from each piece.
C23_AsClaimed ==
    (called = "parse_items" /\ step = "done" /\ Contains(arg, <<":">>)) =>
        /\ ret.ok
        /\ ret.items =
              {strip_prefix(piece, " ") :
                  piece \in Range(Split(strip_suffix(strip_prefix(AfterFirstColon(arg), " "),
                                                     "\n"), ","))}

----------------------------------------------------------------------------
\* The subtitle begins with a bracketed tag: a "[" and, later, its "]".
BeginsWithTag(s) ==
    /\ s # <<>> /\ s[1] = "["
    /\ \E j \in 2..Len(s) :
          s[j] = "]" /\ \A k \in 2..(j - 1) : s[k] \notin {"[", "]", "\n"}

\* C24: when the subtitle begins with a bracketed tag, one that holds a space
\* too, the version is absent: no version that starts with "[", a fragment
\* of that tag, is present.
C24_AsClaimed ==
    (called = "version" /\ step = "done" /\ BeginsWithTag(arg)) =>
        /\ ~ret.some
        /\ ret.val = <<>> \/ ret.val[1] # "["

----------------------------------------------------------------------------
\* The regions in the order of the claim, and those a document lacks.
RegionOrder == <<"name", "subtitle", "hash", "size", "info">>

Missing(doc) ==
    {i \in 1..Len(RegionOrder) :
        ~(CASE RegionOrder[i] = "name" -> doc.name
            [] RegionOrder[i] = "subtitle" -> doc.subtitle.some
            [] RegionOrder[i] = "hash" -> doc.hash
            [] RegionOrder[i] = "size" -> doc.size
            [] OTHER -> doc.info.some)}

FirstMissing(doc) == RegionOrder[CHOOSE i \in Missing(doc) : \A k \in Missing(doc) : i <= k]

GameErrorNaming(field) == [kind |-> "Game", message |-> field, page |-> 0]

\* The error of parse_game for an url that resolves, the id error named id.
ErrorsNameTheFirstMissing(id) ==
    (called = "parse_game" /\ step = "done" /\ arg.link # "nojoin") =>
        IF arg.link = "noid" THEN ~ret.ok /\ ret.err = GameErrorNaming(id)
        ELSE (arg.http /\ Missing(arg.doc) # {}) =>
                ~ret.ok /\ ret.err = GameErrorNaming(FirstMissing(arg.doc))

\* C25 as claimed: for a fetched document that lacks regions, parse_game
\* fails with a Game error naming the first missing one in the order name,
\* subtitle, hash, size, info, and naming "id" for an url without an id.
C25_AsClaimed == ErrorsNameTheFirstMissing("id")

\* C25: for a fetched document that lacks regions, parse_game fails with a
\* Game error naming the first missing one in the order name, subtitle, hash,
\* size, info; for an url without an id the message of the Game error is
\* "1337x id from url".
C25_FirstMissingRegionNamed == ErrorsNameTheFirstMissing("1337x id from url")

\* A document that lacks its hash and its size fails with the error of
\* the hash.
C25_Witness ==
    /\ called = "parse_game" /\ step = "done"
    /\ arg.link = "ok" /\ arg.http
    /\ Missing(arg.doc) = {3, 4}
    /\ ret.err = GameErrorNaming("hash")

----------------------------------------------------------------------------
\* C26: one call of parse_game starts one fetch at most and never a second
\* one, whatever the first answers; it starts none when the url cannot be
\* joined or holds no numeric id; one call of parse_page starts exactly one
\* fetch.
C26_OneFetchPerCall ==
    /\ (called = "parse_game" /\ step # "call") =>
           locals.fetches = IF arg.link \in {"nojoin", "noid"} THEN 0 ELSE 1
    /\ (called = "parse_page" /\ step = "done") => locals.fetches = 1

\* parse_game has returned the error of a failed fetch, having fetched once.
C26_Witness ==
    /\ called = "parse_game" /\ step = "done"
    /\ ~arg.http /\ ret.err = HttpError
    /\ locals.fetches = 1

----------------------------------------------------------------------------
\* The paragraphs that have a heading whose text holds "Info" or
\* "Description".
WithInfoHeading(paragraphs) ==
    {i \in 1..Len(paragraphs) :
        \E h \in 1..Len(paragraphs[i]) :
            /\ paragraphs[i][h].some
            /\ \/ Contains(paragraphs[i][h].val, <<"Info">>)
               \/ Contains(paragraphs[i][h].val, <<"Description">>)}

\* C27: the info block is the first description paragraph that has a heading
\* whose text holds "Info" or "Description"; a paragraph without such a
\* heading (no heading, headings with other text, a heading without text)
\* is skipped, and parse_game fails with the Game error "info" when no
\* paragraph has one.
C27_AsClaimed ==
    (called = "info_box" /\ step = "done") =>
        IF WithInfoHeading(arg) = {}
        THEN ~ret.found /\ ret.err = GameErrorNaming("info")
        ELSE /\ ret.found
             /\ ret.index \in WithInfoHeading(arg)
             /\ \A k \in WithInfoHeading(arg) : ret.index <= k

----------------------------------------------------------------------------
\* C28: no record of a scraper made with the uploader u has u among its
\* tags, whatever u is.
C28_AsClaimed ==
    (called = "record_tags" /\ step = "done") => <<arg.uploader>> \notin ret

----------------------------------------------------------------------------
\* The positions of the failing outcomes that stand for failed pages.
PageFailures == {j \in 1..Len(emitted) : emitted[j].src = "page"}

\* The items (page, index) of the fetched pages before page k.
ItemsBefore(k) ==
    {it \in (DOMAIN page_log) \X (1..MaxLinks) :
        it[1] < k /\ page_log[it[1]].ok /\ it[2] <= Len(page_log[it[1]].links)}

\* C29 as claimed: the failing outcome of a failed page k is emitted only
\* after every outcome of the items of the pages before k.
C29_AsClaimed ==
    \A j \in PageFailures : \A it \in ItemsBefore(emitted[j].page) :
        \E h \in 1..(j - 1) :
            emitted[h].src = "game" /\ emitted[h].page = it[1] /\ emitted[h].idx = it[2]

\* C29: the failing outcome of a failed page k is emitted only after every
\* item of the pages before k has been taken into the item stage, and
\* before no outcome of a later page; the outcomes of earlier items that
\* were still buffered then, game_buf_factor - 1 at most, come after it.
C29_PageFailureAfterEarlierItemsBuffered ==
    \A j \in PageFailures :
        LET k == emitted[j].page
            later == {h \in (j + 1)..Len(emitted) :
                         emitted[h].src = "game" /\ emitted[h].page < k}
            buffered == {i \in 1..Len(game_queue) : game_queue[i].page < k}
        IN /\ \A it \in ItemsBefore(k) :
                 \/ EmittedOf("game", it[1], it[2]) # {}
                 \/ \E i \in buffered : game_queue[i].idx = it[2] /\ game_queue[i].page = it[1]
           /\ \A h \in 1..(j - 1) : emitted[h].page < k
           /\ Cardinality(later) + Cardinality(buffered) <= game_buf_factor - 1

\* The outcome of an item of page 1 has been emitted after the failing
\* outcome of page 2.
C29_Witness ==
    \E j \in PageFailures : \E h \in (j + 1)..Len(emitted) :
        emitted[h].src = "game" /\ emitted[h].page < emitted[j].page

----------------------------------------------------------------------------
\* The fragments before the first marker that hold `word:`.
ListsOf(fragments, word) ==
    {i \in 1..(FirstMarker(fragments) - 1) : Contains(fragments[i], <<word, ":">>)}

\* C30: of several fragments with "Genre:" (or with "Language:") before the
\* description marker, the last one alone gives the set: each replaces the
\* set built so far, nothing of an earlier one is kept; a fragment with both
\* "Genre:" and "Language:" sets the genres only.
C30_LastListOnly ==
    (called = "parse_game" /\ step = "done" /\ ret.ok) =>
        LET f == arg.doc.info.val
            genre == ListsOf(f, "Genre")
            language == ListsOf(f, "Language") \ genre
        IN /\ \A i \in genre, j \in genre :
                 (i < j /\ \A k \in genre : k <= j) =>
                     /\ ret.game.genres = parse_items(f[j]).items
                     /\ \A x \in parse_items(f[i]).items :
                           x \in ret.game.genres => x \in parse_items(f[j]).items
           /\ \A i \in language, j \in language :
                 (i < j /\ \A k \in language : k <= j) =>
                     ret.game.languages = parse_items(f[j]).items
           /\ language = {} => ret.game.languages = {}

\* Two lists of genres with different items before the marker: the record
\* has those of the second and none of the first.
C30_Witness ==
    /\ called = "parse_game" /\ step = "done" /\ ret.ok
    /\ \E i \in ListsOf(arg.doc.info.val, "Genre"), j \in ListsOf(arg.doc.info.val, "Genre") :
          /\ i < j
          /\ parse_items(arg.doc.info.val[i]).items \cap parse_items(arg.doc.info.val[j]).items = {}
          /\ ret.game.genres = parse_items(arg.doc.info.val[j]).items
    /\ \E i \in ListsOf(arg.doc.info.val, "Genre") :
          Contains(arg.doc.info.val[i], <<"Language", ":">>)
    /\ ret.game.languages = {}

----------------------------------------------------------------------------
\* C12: for every pair of buffer factors that LeetxScraper::new accepts, and
\* every fetch that starts completing, a stream that is being polled
\* eventually ends.
C12_AsClaimed == (pc = "crawl") ~> Ended

====
